---- MODULE Spec2Model ----
(***************************************************************************)
(* Model of the two pieces of logic of jupyter-desktop:                    *)
(*   - GoogleDriveDownloadHandler (src/backend/google_drive_handler.py)    *)
(*   - the kabusap token client                                            *)
(*     (src/backend/.ipython/profile_default/startup/api/lib/kabusap.py)   *)
(***************************************************************************)
EXTENDS Integers, Sequences, FiniteSets, TLC

VARIABLES
    \* ---- GoogleDriveDownloadHandler: one request at a time ----
    h_pc,           \* "idle" | "prepared" | "finished": where the handler object is
    request,        \* [method, args]: args = the values of query parameter file_id
    calls,          \* URLs handed to requests.get, in order
    responses,      \* what each requests.get produced, in order
    status,         \* HTTP status of the reply (tornado _status_code)
    reason,         \* reason of the raised web.HTTPError, <<>> when none
    out_headers,    \* reply headers set by the handler: set of <<name, value>>
    write_buffer,   \* chunks handed to self.write, each a sequence of bytes
    \* ---- kabusap ----
    instance,       \* cls._instance is not None
    attrs,          \* names of the attributes the instance has (its __dict__)
    api_key,        \* self.api_key
    isEnable,       \* self.isEnable (meaningful when "isEnable" \in attrs)
    k_headers,      \* self.headers: set of <<name, value>>
    environ,        \* os.environ['KABUSAP_API_PASSWORD'], or Unset
    posts,          \* POSTs sent to the token endpoint, in order
    last,           \* record of the last constructor / refresh call
    absentSince,    \* the credential was absent at first construction and ever since
    \* ---- threads calling kabusap() ----
    lock,           \* cls._lock: the thread holding it, 0 when free
    created,        \* number of kabusap objects created; cls._instance is the latest
    inits,          \* number of times __init__ assigned self.api_key = "" (line 33)
    t_pc,           \* per thread: the line its constructor call is at
    t_obj,          \* per thread: the object __new__ returned (0: none yet)
    t_ret           \* per thread: what its _set_token() call returned

hvars == <<h_pc, request, calls, responses, status, reason, out_headers, write_buffer>>
kvars == <<instance, attrs, api_key, isEnable, k_headers, environ, posts, last, absentSince>>
tvars == <<lock, created, inits, t_pc, t_obj, t_ret>>
vars == <<h_pc, request, calls, responses, status, reason, out_headers, write_buffer,
          instance, attrs, api_key, isEnable, k_headers, environ, posts, last, absentSince,
          lock, created, inits, t_pc, t_obj, t_ret>>

(***************************************************************************)
(* Bounds                                                                  *)
(***************************************************************************)
MaxBody == 1
MaxPosts == 2
NThreads == 2

RECURSIVE SeqsUpTo(_, _)
SeqsUpTo(S, n) ==
    IF n = 0 THEN {<<>>}
    ELSE LET shorter == SeqsUpTo(S, n - 1)
         IN shorter \cup {Append(s, x) : s \in {t \in shorter : Len(t) = n - 1}, x \in S}

(***************************************************************************)
(* Text and bytes                                                          *)
(***************************************************************************)
\* Bytes of remote bodies: 'A', and the two bytes of UTF-8 "e acute" (C3 A9).
BodyBytes == {65, 195, 169}
Bodies == SeqsUpTo(BodyBytes, MaxBody)

\* bytes.decode('utf-8', errors='replace') for bytes below 0xE0
RECURSIVE Utf8Decode(_)
Utf8Decode(b) ==
    IF b = <<>> THEN <<>>
    ELSE LET h == Head(b) IN
         IF h < 128 THEN <<h>> \o Utf8Decode(Tail(b))
         ELSE IF h \in 194..223 /\ Len(b) >= 2 /\ b[2] \in 128..191
              THEN <<(h - 192) * 64 + (b[2] - 128)>> \o Utf8Decode(Tail(Tail(b)))
              ELSE <<65533>> \o Utf8Decode(Tail(b))

\* bytes.decode('iso-8859-1'): every byte is the code point of the same value
Latin1Decode(b) == [i \in 1..Len(b) |-> b[i]]

\* str.encode('utf-8') for code points of the basic plane
RECURSIVE Utf8Encode(_)
Utf8Encode(s) ==
    IF s = <<>> THEN <<>>
    ELSE LET c == Head(s) IN
         (IF c < 128 THEN <<c>>
          ELSE IF c < 2048 THEN <<192 + (c \div 64), 128 + (c % 64)>>
          ELSE <<224 + (c \div 4096), 128 + ((c \div 64) % 64), 128 + (c % 64)>>)
         \o Utf8Encode(Tail(s))

Decode(b, enc) == IF enc = "utf-8" THEN Utf8Decode(b) ELSE Latin1Decode(b)

\* str.strip() on a sequence of characters
IsSpace(c) == c = " "
RECURSIVE LStrip(_)
LStrip(s) == IF s # <<>> /\ IsSpace(Head(s)) THEN LStrip(Tail(s)) ELSE s
RECURSIVE RStrip(_)
RStrip(s) == IF s # <<>> /\ IsSpace(s[Len(s)]) THEN RStrip(SubSeq(s, 1, Len(s) - 1)) ELSE s
Strip(s) == RStrip(LStrip(s))

(***************************************************************************)
(* GoogleDriveDownloadHandler                                              *)
(***************************************************************************)
\* None, as get_argument's default (a value no stripped argument equals)
None == <<"<None>">>

\* query strings: the values given for file_id, in order of appearance
FileIdArgs ==
    { <<>>,                              \* no file_id parameter
      << <<>> >>,                        \* file_id=
      << <<" ">> >>,                     \* file_id=%20
      << <<"a">> >>,                     \* file_id=a
      << <<" ", "a", "b", " ">> >>,      \* file_id=%20ab%20
      << <<"a">>, <<>> >>,               \* file_id=a&file_id=
      << <<>>, <<"a", "b">> >> }         \* file_id=&file_id=ab
Methods == {"GET", "OPTIONS"}

\* the remote's replies
Absent == "<no header>"
ContentTypes == {Absent, "application/json", "text/plain", "Text/HTML; charset=UTF-8"}
Statuses == {200, 304, 404}
Encodings == {"utf-8", "iso-8859-1"}
NoEncoding == "<None>"
\* what requests.get can raise: requests' exception classes, and anything else
Raisable == {"ConnectTimeout", "ReadTimeout", "ConnectionError", "TooManyRedirects",
             "RuntimeError"}
Outcomes ==
    [kind : {"response"}, exc : {""}, status : Statuses, ctype : ContentTypes, body : Bodies]
    \cup
    [kind : {"raise"}, exc : Raisable, status : {0}, ctype : {Absent}, body : {<<>>}]

\* the classes an exception is an instance of (its class and its base classes)
Bases(cls) ==
    CASE cls = "web.HTTPError"    -> {"web.HTTPError", "Exception"}
      [] cls = "HTTPError"        -> {"HTTPError", "RequestException", "Exception"}
      [] cls = "ConnectTimeout"   -> {"ConnectTimeout", "ConnectionError", "Timeout",
                                      "RequestException", "Exception"}
      [] cls = "ReadTimeout"      -> {"ReadTimeout", "Timeout", "RequestException", "Exception"}
      [] cls = "ConnectionError"  -> {"ConnectionError", "RequestException", "Exception"}
      [] cls = "TooManyRedirects" -> {"TooManyRedirects", "RequestException", "Exception"}
      [] OTHER                    -> {cls, "Exception"}
IsInstance(e, cls) == cls \in Bases(e.cls)

NoExc == [cls |-> "", status |-> 0, reason |-> <<>>]
Exc(cls) == [cls |-> cls, status |-> 0, reason |-> <<cls>>]
WebHTTPError(st, rsn) == [cls |-> "web.HTTPError", status |-> st, reason |-> rsn]

\* the three CORS headers set by set_default_headers, prepare, write_error and options
CorsHeaders ==
    { <<"Access-Control-Allow-Origin", "*">>,
      <<"Access-Control-Allow-Methods", "GET, OPTIONS">>,
      <<"Access-Control-Allow-Headers", "Content-Type">> }
SetHeader(hs, name, value) == {p \in hs : p[1] # name} \cup {<<name, value>>}

\* self.get_argument('file_id', default): the last value, stripped
GetArgument(args, default) == IF args = <<>> THEN default ELSE Strip(args[Len(args)])

\* `not file_id`
Falsy_NoneOnly(x) == x = None
Falsy(x) == x = None \/ x = <<>>

DownloadUrl(file_id) == <<"https://drive.google.com/uc?export=download&id=">> \o file_id
ConfirmUrl_NoConfirm(file_id) == DownloadUrl(file_id)
ConfirmUrl(file_id) == DownloadUrl(file_id) \o <<"&confirm=t">>

\* response.raise_for_status() raises requests.HTTPError for 4xx and 5xx
RaisesForStatus_Never(r) == FALSE
RaisesForStatus(r) == 400 <= r.status /\ r.status < 600

\* response.headers.get('Content-Type', '').lower()
Lower(s) == IF s = "Text/HTML; charset=UTF-8" THEN "text/html; charset=utf-8" ELSE s
ContentTypeOf(r) == Lower(IF r.ctype = Absent THEN "" ELSE r.ctype)
\* 'text/html' in content_type
HasTextHtml(content_type) == content_type \in {"text/html", "text/html; charset=utf-8"}
IsHtml(r) == HasTextHtml(ContentTypeOf(r))

\* response.encoding, as requests derives it from the Content-Type header
EncodingOf(r) ==
    CASE r.ctype = Absent                      -> NoEncoding
      [] r.ctype = "Text/HTML; charset=UTF-8"  -> "utf-8"
      [] r.ctype = "text/plain"                -> "iso-8859-1"
      [] r.ctype = "application/json"          -> "utf-8"
\* response.text; `guess` is the detected encoding used when the header names none
ResponseText(r, guess) ==
    IF r.body = <<>> THEN <<>>
    ELSE Decode(r.body, IF EncodingOf(r) = NoEncoding THEN guess ELSE EncodingOf(r))
\* the chunk self.write(response.text) appends: the text, UTF-8 encoded
Written(r, guess) == Utf8Encode(ResponseText(r, guess))

\* the body of the try block, lines 74-94
TryResult(cs, rs, e, w) == [calls |-> cs, responses |-> rs, exc |-> e, written |-> w]
WarningPageError ==
    WebHTTPError(500, <<"Failed to download file: Warning page could not be bypassed">>)
TryBlock(file_id, o1, o2, guess) ==
    LET url1 == DownloadUrl(file_id)
        url2 == ConfirmUrl(file_id)
    IN  IF o1.kind = "raise" THEN TryResult(<<url1>>, <<o1>>, Exc(o1.exc), <<>>)
        ELSE IF RaisesForStatus(o1) THEN TryResult(<<url1>>, <<o1>>, Exc("HTTPError"), <<>>)
        ELSE IF ~IsHtml(o1) THEN TryResult(<<url1>>, <<o1>>, NoExc, <<Written(o1, guess)>>)
        ELSE IF o2.kind = "raise" THEN TryResult(<<url1, url2>>, <<o1, o2>>, Exc(o2.exc), <<>>)
        ELSE IF RaisesForStatus(o2)
             THEN TryResult(<<url1, url2>>, <<o1, o2>>, Exc("HTTPError"), <<>>)
        ELSE IF IsHtml(o2) THEN TryResult(<<url1, url2>>, <<o1, o2>>, WarningPageError, <<>>)
        ELSE TryResult(<<url1, url2>>, <<o1, o2>>, NoExc, <<Written(o2, guess)>>)

\* the except clauses, lines 95-108, in their order
ExceptChain_NoReraise(e) ==
    IF IsInstance(e, "Timeout")
    THEN WebHTTPError(504, <<"Request timeout: File download took too long">>)
    ELSE IF IsInstance(e, "RequestException")
    THEN WebHTTPError(500, <<"Failed to download file: ">> \o e.reason)
    ELSE WebHTTPError(500, <<"Internal server error: ">> \o e.reason)
ExceptChain_TimeoutLast(e) ==
    IF IsInstance(e, "web.HTTPError") THEN e
    ELSE IF IsInstance(e, "RequestException")
    THEN WebHTTPError(500, <<"Failed to download file: ">> \o e.reason)
    ELSE IF IsInstance(e, "Timeout")
    THEN WebHTTPError(504, <<"Request timeout: File download took too long">>)
    ELSE WebHTTPError(500, <<"Internal server error: ">> \o e.reason)
ExceptChain(e) ==
    IF IsInstance(e, "web.HTTPError") THEN e
    ELSE IF IsInstance(e, "Timeout")
    THEN WebHTTPError(504, <<"Request timeout: File download took too long">>)
    ELSE IF IsInstance(e, "RequestException")
    THEN WebHTTPError(500, <<"Failed to download file: ">> \o e.reason)
    ELSE WebHTTPError(500, <<"Internal server error: ">> \o e.reason)

\* the reply to a web.HTTPError: its status and reason, CORS headers (write_error)
Fail(e, cs, rs) ==
    /\ status' = e.status
    /\ reason' = e.reason
    /\ calls' = cs
    /\ responses' = rs
    /\ write_buffer' = <<>>
    /\ out_headers' = CorsHeaders

\* a request arrives: a fresh handler, set_default_headers() and prepare()
Prepare(method, args) ==
    /\ h_pc = "idle"
    /\ h_pc' = "prepared"
    /\ request' = [method |-> method, args |-> args]
    /\ calls' = <<>>
    /\ responses' = <<>>
    /\ status' = 200
    /\ reason' = <<>>
    /\ write_buffer' = <<>>
    /\ out_headers' = CorsHeaders
    /\ UNCHANGED kvars
    /\ UNCHANGED tvars

\* options()
Options ==
    /\ h_pc = "prepared"
    /\ request.method = "OPTIONS"
    /\ h_pc' = "finished"
    /\ status' = 204
    /\ out_headers' = CorsHeaders
    /\ UNCHANGED <<request, calls, responses, reason, write_buffer>>
    /\ UNCHANGED kvars
    /\ UNCHANGED tvars

\* get(); o1 and o2 are what the first and the second requests.get produce
Get(o1, o2, guess) ==
    /\ h_pc = "prepared"
    /\ request.method = "GET"
    /\ h_pc' = "finished"
    /\ UNCHANGED request
    /\ LET file_id == GetArgument(request.args, None) IN
       IF Falsy(file_id)
       THEN Fail(WebHTTPError(400, <<"file_id parameter is required">>), <<>>, <<>>)
       ELSE LET t == TryBlock(file_id, o1, o2, guess) IN
            IF t.exc = NoExc
            THEN /\ status' = status
                 /\ reason' = reason
                 /\ calls' = t.calls
                 /\ responses' = t.responses
                 /\ out_headers' = SetHeader(out_headers, "Content-Type", "application/json")
                 /\ write_buffer' = write_buffer \o t.written
            ELSE Fail(ExceptChain(t.exc), t.calls, t.responses)
    /\ UNCHANGED kvars
    /\ UNCHANGED tvars

\* the reply is sent and the handler object of the request is dropped
Finish ==
    /\ h_pc = "finished"
    /\ h_pc' = "idle"
    /\ request' = [method |-> "GET", args |-> <<>>]
    /\ calls' = <<>>
    /\ responses' = <<>>
    /\ status' = 200
    /\ reason' = <<>>
    /\ out_headers' = {}
    /\ write_buffer' = <<>>
    /\ UNCHANGED kvars
    /\ UNCHANGED tvars

\* the second call is made only after a first response that passed
\* raise_for_status and is HTML
NeedsRetry(o1) == o1.kind = "response" /\ ~RaisesForStatus(o1) /\ IsHtml(o1)

InitDownload ==
    /\ h_pc = "idle"
    /\ request = [method |-> "GET", args |-> <<>>]
    /\ calls = <<>>
    /\ responses = <<>>
    /\ status = 200
    /\ reason = <<>>
    /\ out_headers = {}
    /\ write_buffer = <<>>

NextDownload ==
    \/ \E m \in Methods, a \in FileIdArgs : Prepare(m, a)
    \/ Options
    \/ Finish
    \/ \E o1 \in Outcomes :
         \E o2 \in (IF NeedsRetry(o1) THEN Outcomes ELSE {o1}) :
           \E guess \in Encodings : Get(o1, o2, guess)

(***************************************************************************)
(* kabusap: the token client                                               *)
(***************************************************************************)
\* os.getenv('KABUSAP_API_PASSWORD'): unset (None), empty, or a password
Unset == "<unset>"
Credentials == {Unset, "", "secret"}
NoCredential(password) == password = Unset \/ password = ""

API_URL == "http://localhost:18080/kabusapi"
TokenValues == {"", "abc", "xyz"}

\* A body as json.loads sees it. form "invalid": not JSON. members: the x for which
\* `x in content` holds (an object's keys, an array's elements). token: content['Token'].
JsonBody(form, members, token) == [form |-> form, members |-> members, token |-> token]
NotJson == JsonBody("invalid", {}, "")
JsonBodies ==
    {NotJson, JsonBody("object", {"Code", "Message"}, ""), JsonBody("array", {"Token"}, ""),
     JsonBody("null", {}, "")}
    \cup {JsonBody("object", {"ResultCode", "Token"}, t) : t \in TokenValues}

\* what urllib.request.urlopen does with the POST
PostOutcomes ==
    [kind : {"URLError"}, code : {0}, body : {NotJson}]
    \cup [kind : {"HTTPError"}, code : {401, 500}, body : JsonBodies]
    \cup [kind : {"OK"}, code : {200}, body : JsonBodies]
NoOutcome == [kind |-> "none", code |-> 0, body |-> NotJson]

TokenRequest(password) ==
    [method |-> "POST", url |-> <<API_URL, "/token">>, data |-> <<"APIPassword", password>>]

\* the result of one call of _set_token
FetchResult(raised, ret, key, sent, log) ==
    [raised |-> raised, ret |-> ret, api_key |-> key, posts |-> sent, log |-> log]

\* the try block and its except clauses, lines 58-83, once the POST is sent
AfterPost(key, password, outcome) ==
    LET sent == <<TokenRequest(password)>>
        body == outcome.body
    IN  IF outcome.kind = "URLError"
        THEN FetchResult(FALSE, FALSE, key, sent, <<"error">>)
        ELSE IF outcome.kind = "HTTPError"
        THEN \* json.loads in the handler of HTTPError: its exception is not caught
             IF body.form = "invalid"
             THEN FetchResult(TRUE, FALSE, key, sent, <<>>)
             ELSE FetchResult(FALSE, FALSE, key, sent, <<"error">>)
        ELSE IF body.form = "invalid"
        THEN FetchResult(FALSE, FALSE, key, sent, <<"error">>)
        ELSE IF body.form \notin {"object", "array", "string"}
        THEN \* 'Token' in content: TypeError
             FetchResult(FALSE, FALSE, key, sent, <<"error">>)
        ELSE IF "Token" \in body.members
        THEN IF body.form = "object"
             THEN FetchResult(FALSE, TRUE, body.token, sent, <<"info">>)
             ELSE \* content['Token'] on a list or a string: TypeError
                  FetchResult(FALSE, FALSE, key, sent, <<"error">>)
        ELSE FetchResult(FALSE, FALSE, key, sent, <<"error">>)

\* _set_token(), lines 43-83
SetToken_NoCredentialCheck(key, password, outcome) == AfterPost(key, password, outcome)
SetToken(key, password, outcome) ==
    IF NoCredential(password)
    THEN FetchResult(FALSE, FALSE, key, <<>>, <<"warning">>)
    ELSE AfterPost(key, password, outcome)

\* the headers __init__ builds once the token is fetched, lines 38-41
ApiHeaders_NoKey(key) == {<<"Content-Type", "application/json">>}
ApiHeaders(key) == {<<"Content-Type", "application/json">>, <<"X-API-KEY", key>>}

\* _refresh_token_if_needed(), lines 85-95
RefreshResult(fetched, f) == [fetched |-> fetched, fetch |-> f]
RefreshTokenIfNeeded(key, password, outcome) ==
    IF key = ""
    THEN RefreshResult(1, [SetToken(key, password, outcome) EXCEPT !.log = <<"info">> \o @])
    ELSE RefreshResult(0, FetchResult(FALSE, TRUE, key, <<>>, <<>>))

LastCall(op, first, fetched, f, password, outcome) ==
    [op |-> op, first |-> first, fetched |-> fetched, posted |-> f.posts # <<>>,
     raised |-> f.raised, ret |-> f.ret, log |-> f.log, password |-> password,
     outcome |-> IF f.posts # <<>> THEN outcome ELSE NoOutcome]

\* kabusap(): __new__ and then __init__
Construct(outcome) ==
    /\ Len(posts) < MaxPosts
    /\ instance' = TRUE
    /\ IF "_initialized" \in attrs
       THEN /\ UNCHANGED <<attrs, api_key, isEnable, k_headers, posts, absentSince>>
            /\ last' = LastCall("construct", FALSE, 0,
                                FetchResult(FALSE, FALSE, api_key, <<>>, <<>>), environ, outcome)
       ELSE LET f == SetToken("", environ, outcome) IN
            /\ api_key' = f.api_key
            /\ posts' = posts \o f.posts
            /\ attrs' = {"API_URL", "api_key", "headers", "_initialized"}
                          \cup (IF f.raised THEN {} ELSE {"isEnable"})
            /\ isEnable' = (~f.raised /\ f.ret)
            /\ k_headers' = IF ~f.raised /\ f.ret THEN ApiHeaders(f.api_key) ELSE {}
            /\ absentSince' = NoCredential(environ)
            /\ last' = LastCall("construct", TRUE, 1, f, environ, outcome)
    /\ created' = IF instance THEN created ELSE created + 1
    /\ inits' = IF "_initialized" \in attrs THEN inits ELSE inits + 1
    /\ UNCHANGED <<lock, t_pc, t_obj, t_ret>>
    /\ UNCHANGED environ
    /\ UNCHANGED hvars

\* instance._refresh_token_if_needed()
Refresh(outcome) ==
    /\ instance
    /\ "api_key" \in attrs
    /\ Len(posts) < MaxPosts
    /\ LET r == RefreshTokenIfNeeded(api_key, environ, outcome) IN
       /\ api_key' = r.fetch.api_key
       /\ posts' = posts \o r.fetch.posts
       /\ last' = LastCall("refresh", FALSE, r.fetched, r.fetch, environ, outcome)
    /\ UNCHANGED <<instance, attrs, isEnable, k_headers, environ, absentSince>>
    /\ UNCHANGED tvars
    /\ UNCHANGED hvars

\* the process environment changes between calls
SetEnv(v) ==
    /\ v # environ
    /\ environ' = v
    /\ absentSince' = (absentSince /\ NoCredential(v))
    /\ UNCHANGED <<instance, attrs, api_key, isEnable, k_headers, posts, last>>
    /\ UNCHANGED tvars
    /\ UNCHANGED hvars

InitToken ==
    /\ instance = FALSE
    /\ attrs = {}
    /\ api_key = ""
    /\ isEnable = FALSE
    /\ k_headers = {}
    /\ environ = Unset
    /\ posts = <<>>
    /\ last = LastCall("none", FALSE, 0, FetchResult(FALSE, FALSE, "", <<>>, <<>>),
                       Unset, NoOutcome)
    /\ absentSince = FALSE

NextToken ==
    \/ \E o \in PostOutcomes : Construct(o)
    \/ \E o \in PostOutcomes : Refresh(o)
    \/ \E v \in Credentials : SetEnv(v)

(***************************************************************************)
(* kabusap() called from several threads: __new__ and __init__ line by line *)
(***************************************************************************)
Threads == 1..NThreads

At(t, pc) == t_pc[t] = pc
Goto(t, pc) == t_pc' = [t_pc EXCEPT ![t] = pc]

\* `cls._instance is None`, line 21 and, under the lock, line 23
FirstCheck(inst) == ~inst
SecondCheck_Skipped(inst) == TRUE
SecondCheck(inst) == ~inst

\* a thread calls kabusap(), for the first time or again
Call(t) ==
    /\ t_pc[t] \in {"idle", "done", "raised"}
    /\ Goto(t, "new_check")
    /\ t_obj' = [t_obj EXCEPT ![t] = 0]
    /\ t_ret' = [t_ret EXCEPT ![t] = FALSE]
    /\ UNCHANGED <<lock, created, inits>>
    /\ UNCHANGED kvars
    /\ UNCHANGED hvars

\* line 21: if cls._instance is None
NewCheck(t) ==
    /\ At(t, "new_check")
    /\ Goto(t, IF FirstCheck(instance) THEN "new_lock" ELSE "new_return")
    /\ UNCHANGED <<lock, created, inits, t_obj, t_ret>>
    /\ UNCHANGED kvars
    /\ UNCHANGED hvars

\* line 22: with cls._lock (acquire)
NewLock(t) ==
    /\ At(t, "new_lock")
    /\ lock = 0
    /\ lock' = t
    /\ Goto(t, "new_check2")
    /\ UNCHANGED <<created, inits, t_obj, t_ret>>
    /\ UNCHANGED kvars
    /\ UNCHANGED hvars

\* lines 23-24: if cls._instance is None: cls._instance = super().__new__(cls)
NewCheck2(t) ==
    /\ At(t, "new_check2")
    /\ IF SecondCheck(instance)
       THEN /\ instance' = TRUE
            /\ created' = created + 1
            /\ attrs' = {}
       ELSE UNCHANGED <<instance, created, attrs>>
    /\ Goto(t, "new_unlock")
    /\ UNCHANGED <<lock, inits, t_obj, t_ret>>
    /\ UNCHANGED <<api_key, isEnable, k_headers, environ, posts, last, absentSince>>
    /\ UNCHANGED hvars

\* leaving the with block of line 22 (release)
NewUnlock(t) ==
    /\ At(t, "new_unlock")
    /\ lock' = 0
    /\ Goto(t, "new_return")
    /\ UNCHANGED <<created, inits, t_obj, t_ret>>
    /\ UNCHANGED kvars
    /\ UNCHANGED hvars

\* line 25: return cls._instance; __init__ is then called on it
NewReturn(t) ==
    /\ At(t, "new_return")
    /\ t_obj' = [t_obj EXCEPT ![t] = created]
    /\ Goto(t, "init_check")
    /\ UNCHANGED <<lock, created, inits, t_ret>>
    /\ UNCHANGED kvars
    /\ UNCHANGED hvars

\* lines 29-30: if hasattr(self, '_initialized'): return
InitCheck(t) ==
    /\ At(t, "init_check")
    /\ IF "_initialized" \in attrs
       THEN Goto(t, "done")
       ELSE Goto(t, "init_url")
    /\ UNCHANGED <<lock, created, inits, t_obj, t_ret>>
    /\ UNCHANGED kvars
    /\ UNCHANGED hvars

\* line 32: self.API_URL = ...
InitUrl(t) ==
    /\ At(t, "init_url")
    /\ attrs' = attrs \cup {"API_URL"}
    /\ Goto(t, "init_key")
    /\ UNCHANGED <<lock, created, inits, t_obj, t_ret>>
    /\ UNCHANGED <<instance, api_key, isEnable, k_headers, environ, posts, last, absentSince>>
    /\ UNCHANGED hvars

\* line 33: self.api_key = ""
InitKey(t) ==
    /\ At(t, "init_key")
    /\ api_key' = ""
    /\ attrs' = attrs \cup {"api_key"}
    /\ inits' = inits + 1
    /\ Goto(t, "init_headers")
    /\ UNCHANGED <<lock, created, t_obj, t_ret>>
    /\ UNCHANGED <<instance, isEnable, k_headers, environ, posts, last, absentSince>>
    /\ UNCHANGED hvars

\* line 34: self.headers = {}
InitHeaders(t) ==
    /\ At(t, "init_headers")
    /\ k_headers' = {}
    /\ attrs' = attrs \cup {"headers"}
    /\ Goto(t, "init_flag")
    /\ UNCHANGED <<lock, created, inits, t_obj, t_ret>>
    /\ UNCHANGED <<instance, api_key, isEnable, environ, posts, last, absentSince>>
    /\ UNCHANGED hvars

\* line 35: self._initialized = True
InitFlag(t) ==
    /\ At(t, "init_flag")
    /\ attrs' = attrs \cup {"_initialized"}
    /\ Goto(t, "set_token")
    /\ UNCHANGED <<lock, created, inits, t_obj, t_ret>>
    /\ UNCHANGED <<instance, api_key, isEnable, k_headers, environ, posts, last, absentSince>>
    /\ UNCHANGED hvars

\* line 36 calls _set_token(); lines 50-66: the credential is read and, when there
\* is one, the POST is sent and the thread waits for the answer
SetTokenCall(t) ==
    /\ At(t, "set_token")
    /\ IF NoCredential(environ)
       THEN /\ t_ret' = [t_ret EXCEPT ![t] = FALSE]
            /\ Goto(t, "init_enable")
            /\ UNCHANGED posts
       ELSE /\ Len(posts) < MaxPosts
            /\ posts' = Append(posts, TokenRequest(environ))
            /\ Goto(t, "set_wait")
            /\ UNCHANGED t_ret
    /\ UNCHANGED <<lock, created, inits, t_obj>>
    /\ UNCHANGED <<instance, attrs, api_key, isEnable, k_headers, environ, last, absentSince>>
    /\ UNCHANGED hvars

\* lines 66-83: the answer to the POST arrives and _set_token returns or raises
SetTokenReply(t, outcome) ==
    /\ At(t, "set_wait")
    /\ LET f == AfterPost(api_key, environ, outcome) IN
       /\ api_key' = f.api_key
       /\ IF f.raised
          THEN Goto(t, "raised") /\ UNCHANGED t_ret
          ELSE Goto(t, "init_enable") /\ t_ret' = [t_ret EXCEPT ![t] = f.ret]
    /\ UNCHANGED <<lock, created, inits, t_obj>>
    /\ UNCHANGED <<instance, attrs, isEnable, k_headers, environ, posts, last, absentSince>>
    /\ UNCHANGED hvars

\* line 36: self.isEnable = (what _set_token returned)
InitEnable(t) ==
    /\ At(t, "init_enable")
    /\ isEnable' = t_ret[t]
    /\ attrs' = attrs \cup {"isEnable"}
    /\ Goto(t, "init_if")
    /\ UNCHANGED <<lock, created, inits, t_obj, t_ret>>
    /\ UNCHANGED <<instance, api_key, k_headers, environ, posts, last, absentSince>>
    /\ UNCHANGED hvars

\* line 37: if self.isEnable
InitIf(t) ==
    /\ At(t, "init_if")
    /\ Goto(t, IF isEnable THEN "init_set_headers" ELSE "done")
    /\ UNCHANGED <<lock, created, inits, t_obj, t_ret>>
    /\ UNCHANGED kvars
    /\ UNCHANGED hvars

\* lines 38-41: self.headers = {..., 'X-API-KEY': self.api_key}
InitSetHeaders(t) ==
    /\ At(t, "init_set_headers")
    /\ k_headers' = ApiHeaders(api_key)
    /\ Goto(t, "done")
    /\ UNCHANGED <<lock, created, inits, t_obj, t_ret>>
    /\ UNCHANGED <<instance, attrs, api_key, isEnable, environ, posts, last, absentSince>>
    /\ UNCHANGED hvars

InitThreads ==
    /\ lock = 0
    /\ created = 0
    /\ inits = 0
    /\ t_pc = [t \in Threads |-> "idle"]
    /\ t_obj = [t \in Threads |-> 0]
    /\ t_ret = [t \in Threads |-> FALSE]

NextThreads ==
    \/ \E t \in Threads : Call(t)
    \/ \E t \in Threads : NewCheck(t)
    \/ \E t \in Threads : NewLock(t)
    \/ \E t \in Threads : NewCheck2(t)
    \/ \E t \in Threads : NewUnlock(t)
    \/ \E t \in Threads : NewReturn(t)
    \/ \E t \in Threads : InitCheck(t)
    \/ \E t \in Threads : InitUrl(t)
    \/ \E t \in Threads : InitKey(t)
    \/ \E t \in Threads : InitHeaders(t)
    \/ \E t \in Threads : InitFlag(t)
    \/ \E t \in Threads : SetTokenCall(t)
    \/ \E t \in Threads, o \in PostOutcomes : SetTokenReply(t, o)
    \/ \E t \in Threads : InitEnable(t)
    \/ \E t \in Threads : InitIf(t)
    \/ \E t \in Threads : InitSetHeaders(t)
    \/ \E v \in Credentials : SetEnv(v)

(***************************************************************************)
(* Specifications                                                          *)
(***************************************************************************)
Init == InitDownload /\ InitToken /\ InitThreads
SpecDownload == Init /\ [][NextDownload]_vars
SpecToken == Init /\ [][NextToken]_vars
SpecThreads == Init /\ [][NextThreads]_vars

(***************************************************************************)
(* Properties of GoogleDriveDownloadHandler.get                            *)
(***************************************************************************)
\* a GET has been answered
GetDone == h_pc = "finished" /\ request.method = "GET"
\* the file_id the request carries: the last value given, when one is given
FileIdGiven == request.args # <<>>
FileIdValue == request.args[Len(request.args)]
\* the i-th outbound call was made and produced r
Produced(i) == i <= Len(responses)
\* a 2xx response
Successful(r) == r.kind = "response" /\ r.status \in 200..299
\* a response whose Content-Type is text/html, in any letter case
HtmlTyped(r) == r.kind = "response" /\ r.ctype = "Text/HTML; charset=UTF-8"
TimedOut(r) == r.kind = "raise" /\ r.exc \in {"ConnectTimeout", "ReadTimeout"}
BaseUrl == "https://drive.google.com/uc?export=download&id="

\* C1: a GET whose file_id is absent or empty fails with 400 and the reason
\* "file_id parameter is required", makes no outbound call and writes no body.
C1_MissingFileId ==
    (GetDone /\ (~FileIdGiven \/ FileIdValue = <<>>)) =>
        /\ status = 400
        /\ reason = <<"file_id parameter is required">>
        /\ calls = <<>>
        /\ write_buffer = <<>>
C1_Witness ==
    /\ GetDone
    /\ FileIdGiven
    /\ FileIdValue = <<>>
    /\ Len(request.args) = 2
    /\ status = 400

C3_WarningPage ==
    (/\ GetDone
     /\ Produced(2)
     /\ Successful(responses[1]) /\ HtmlTyped(responses[1])
     /\ Successful(responses[2]) /\ HtmlTyped(responses[2])) =>
        /\ status = 500
        /\ reason = <<"Failed to download file: Warning page could not be bypassed">>
        /\ write_buffer = <<>>
        /\ Len(calls) = 2
C3_Witness ==
    /\ GetDone
    /\ Len(responses) = 2
    /\ Successful(responses[1]) /\ HtmlTyped(responses[1])
    /\ Successful(responses[2]) /\ HtmlTyped(responses[2])
    /\ status = 500

\* C4: when an outbound call times out, the first or the retry, the GET fails
\* with 504 (not 500) and writes no body.
C4_Timeout ==
    (GetDone /\ \E i \in 1..Len(responses) : TimedOut(responses[i])) =>
        /\ status = 504
        /\ write_buffer = <<>>
C4_Witness ==
    /\ GetDone
    /\ Len(responses) = 2
    /\ responses[2].kind = "raise"
    /\ responses[2].exc = "ConnectTimeout"
    /\ status = 504

\* C5: when the first response is successful and not HTML (also without a
\* Content-Type header), no second call is made and the reply is that response's
\* body, byte for byte, with Content-Type application/json.
C5_Verbatim ==
    (GetDone /\ Produced(1) /\ Successful(responses[1]) /\ ~HtmlTyped(responses[1])) =>
        /\ Len(calls) = 1
        /\ status = 200
        /\ <<"Content-Type", "application/json">> \in out_headers
        /\ write_buffer = <<responses[1].body>>

\* C6 as stated: a failure of an outbound call that is not a timeout (an exception,
\* or a non-2xx status) ends the GET with 500 and is the last outbound call; and
\* every GET ends either with a body and 200, or with an error 400, 500 or 504.
NonTimeoutFailure(r) ==
    \/ r.kind = "raise" /\ ~TimedOut(r)
    \/ r.kind = "response" /\ r.status \notin 200..299
ExactlyOneEnding ==
    GetDone =>
        \/ status = 200 /\ Len(write_buffer) = 1 /\ reason = <<>>
        \/ status \in {400, 500, 504} /\ write_buffer = <<>> /\ reason # <<>>
C6_Original ==
    /\ ExactlyOneEnding
    /\ GetDone =>
         \A i \in 1..Len(responses) :
            NonTimeoutFailure(responses[i]) => (status = 500 /\ i = Len(responses))

\* C6 amended: the same, for the statuses raise_for_status rejects (4xx and 5xx).
RequestFailure(r) ==
    \/ r.kind = "raise" /\ ~TimedOut(r)
    \/ r.kind = "response" /\ r.status \in 400..599
C6_RequestFailure ==
    /\ ExactlyOneEnding
    /\ GetDone =>
         \A i \in 1..Len(responses) :
            RequestFailure(responses[i]) =>
                (status = 500 /\ i = Len(responses) /\ Len(calls) = i /\ write_buffer = <<>>)
C6_Witness ==
    /\ GetDone
    /\ Len(responses) = 1
    /\ responses[1].kind = "response"
    /\ responses[1].status = 404
    /\ HtmlTyped(responses[1])
    /\ status = 500

(***************************************************************************)
(* Properties of kabusap                                                   *)
(***************************************************************************)
HasToken(body) == body.form = "object" /\ "Token" \in body.members
Logged(level) == \E i \in 1..Len(last.log) : last.log[i] = level

\* C7: with the credential absent or empty at construction, the client is left
\* disabled (isEnable false, token empty, headers empty) and nothing is POSTed;
\* while the credential stays absent every refresh returns False without a POST
\* and the client stays disabled.
C7_NoCredential ==
    absentSince =>
        /\ NoCredential(environ)
        /\ instance
        /\ "isEnable" \in attrs /\ ~isEnable
        /\ api_key = ""
        /\ k_headers = {}
        /\ posts = <<>>
        /\ last.op \in {"construct", "refresh"}
        /\ ~last.raised /\ ~last.posted
        /\ last.op = "refresh" => (last.fetched = 1 /\ ~last.ret)
C7_Witness ==
    /\ absentSince
    /\ environ = ""
    /\ last.op = "refresh"
    /\ last.password = ""
    /\ ~last.ret

\* C8: with the credential present, when the token endpoint answers the POST of
\* the first construction with a JSON object holding Token = T, the client ends
\* enabled, with T stored and X-API-KEY = T in the headers; when the successful
\* answer has no Token field the client ends disabled with an empty token.
C8_FirstConstruction ==
    (/\ last.op = "construct" /\ last.first
     /\ ~NoCredential(last.password)
     /\ last.outcome.kind = "OK") =>
        IF HasToken(last.outcome.body)
        THEN /\ "isEnable" \in attrs /\ isEnable
             /\ api_key = last.outcome.body.token
             /\ <<"X-API-KEY", last.outcome.body.token>> \in k_headers
        ELSE /\ "isEnable" \in attrs /\ ~isEnable
             /\ api_key = ""
C8_Witness ==
    /\ last.op = "construct" /\ last.first
    /\ last.password = "secret"
    /\ last.outcome.kind = "OK"
    /\ HasToken(last.outcome.body)
    /\ last.outcome.body.token = "abc"
    /\ isEnable
    /\ api_key = "abc"

\* C9: the token fetch never raises: after a transport error, a non-2xx answer
\* with any body, or a 2xx answer with an unparsable body, it has logged the
\* error and returned False.
FetchFailed(o) ==
    \/ o.kind \in {"URLError", "HTTPError"}
    \/ o.kind = "OK" /\ o.body.form = "invalid"
C9_FetchNeverRaises ==
    (last.posted /\ FetchFailed(last.outcome)) =>
        /\ ~last.raised
        /\ ~last.ret
        /\ Logged("error")

\* C10: a refresh with a non-empty cached token returns True, POSTs nothing and
\* leaves token, enabled flag and headers as they were; a refresh with an empty
\* token makes exactly one fetch attempt and returns what that attempt returned.
C10_RefreshOnlyWhenEmpty ==
    [][\A o \in PostOutcomes :
         Refresh(o) =>
            IF api_key # ""
            THEN /\ last'.fetched = 0
                 /\ ~last'.raised /\ last'.ret
                 /\ posts' = posts
                 /\ api_key' = api_key
                 /\ isEnable' = isEnable /\ attrs' = attrs
                 /\ k_headers' = k_headers
            ELSE /\ last'.fetched = 1
                 /\ Len(posts') <= Len(posts) + 1
                 /\ ~last'.raised
                 /\ last'.ret = SetToken(api_key, environ, o).ret]_vars

\* the client is marked enabled
Enabled == "isEnable" \in attrs /\ isEnable

\* C13: after a call whose token fetch succeeded the returned token is stored and
\* the client is marked enabled, and after a call whose fetch failed the client
\* is not marked enabled; for the fetch of a refresh as for that of construction.
C13_FlagFollowsFetch ==
    (last.op \in {"construct", "refresh"} /\ last.fetched = 1) =>
        IF ~last.raised /\ last.ret
        THEN /\ last.posted
             /\ api_key = last.outcome.body.token
             /\ Enabled
        ELSE ~Enabled

\* C14: the headers agree with the token holder: an enabled client has X-API-KEY
\* equal to the stored token, and a non-empty stored token is in the headers.
C14_HeadersAgree ==
    /\ Enabled => <<"X-API-KEY", api_key>> \in k_headers
    /\ api_key # "" => <<"X-API-KEY", api_key>> \in k_headers

(***************************************************************************)
(* Properties of kabusap() under concurrent construction                   *)
(***************************************************************************)
\* __new__ has handed thread t its object
HasObject(t) ==
    t_pc[t] \notin {"idle", "new_check", "new_lock", "new_check2", "new_unlock", "new_return"}
\* the constructor call of thread t has returned the instance to its caller
Returned(t) == t_pc[t] = "done"

\* C11: whatever the interleaving of the constructing threads, exactly one
\* object is ever created and every constructor call gets that same object.
C11_SingleInstance ==
    /\ created <= 1
    /\ instance <=> created = 1
    /\ \A t \in Threads : HasObject(t) => (t_obj[t] = 1 /\ created = 1)
C11_Witness ==
    \E t1 \in Threads, t2 \in Threads :
        /\ t1 # t2
        /\ Returned(t1) /\ t_obj[t1] = 1
        /\ Returned(t2) /\ t_obj[t2] = 1
        /\ created = 1

\* C12: construction POSTs to the token endpoint at most once in all, and the
\* stored token is initialised by one constructor call only (later ones neither
\* read the credential again nor reset token, flag and headers).
C12_SinglePost ==
    /\ Len(posts) <= 1
    /\ inits <= 1

\* C15: no constructor call returns the instance to its caller before isEnable
\* has been assigned.
C15_EnabledAssigned ==
    \A t \in Threads : Returned(t) => "isEnable" \in attrs

====
